---- MODULE Spec2Model ----
(***************************************************************************)
(* Model of the mangosense prediction pipeline (views/ml_views.py,         *)
(* views/utils.py, models.py): the image validator, the prediction         *)
(* summarizer, the confidence tiers and the predict_image request handler  *)
(* with the MangoImage / PredictionLog store it writes to.                 *)
(*                                                                         *)
(* Numbers.  Probabilities and percentages are floats in the source; here  *)
(* a real x is the integer x * FixedPoint (two decimals), so 0.85 is 85    *)
(* and the percentage 85.0 is 8500.                                        *)
(***************************************************************************)
EXTENDS Integers, Sequences, FiniteSets, TLC

\* ------------------------------------------------------------------ bounds
\* predict_image requests served in one behaviour
MaxRequests == 1
\* longest filename (in characters) the validator is applied to
MaxNameLen == 5
\* longest probability vector the summarizer is applied to on its own
MaxVecLen == 4
\* largest probability (in 1/FixedPoint) in those vectors
MaxProb == 2
\* confirmation / notification requests that may be in flight together
MaxWorkers == 2
\* MangoImage rows created in one behaviour of the dashboard specifications
MaxImages == 1
\* requests received in one behaviour of the dashboard specifications
MaxAdminRequests == 3

\* ------------------------------------------------- representation helpers
FixedPoint == 100
None == 0

Range(s) == {s[i] : i \in 1..Len(s)}
Reverse(s) == [i \in 1..Len(s) |-> s[Len(s) + 1 - i]]
\* Python s[-k:] : the last k elements, the whole of s when it is shorter
LastN(s, k) == IF Len(s) <= k THEN s ELSE SubSeq(s, Len(s) - k + 1, Len(s))
Permutations1(n) == {f \in [1..n -> 1..n] : \A i, j \in 1..n : f[i] = f[j] => i = j}
SeqsUpTo(S, n) == UNION {[1..k -> S] : k \in 0..n}

\* ------------------------------------------------ ml_views.py constants
LEAF_CLASS_NAMES ==
  <<"Anthracnose", "Bacterial Canker", "Cutting Weevil", "Die Back", "Gall Midge",
    "Healthy", "Powdery Mildew", "Sooty Mold">>

FRUIT_CLASS_NAMES ==
  <<"Anthracnose", "Black Mold Rot", "Healthy", "Stem End Rot">>

NO_TREATMENT == "No treatment information available."
UNKNOWN_TREATMENT == "The uploaded image could not be confidently classified."

\* treatment_suggestions.get(disease, NO_TREATMENT); the texts are abbreviated
treatment_suggestions(disease) ==
  CASE disease = "Anthracnose" -> "Prune and burn diseased twigs; spray Carbendazim."
    [] disease = "Bacterial Canker" -> "Three sprays of Streptocycline."
    [] disease = "Cutting Weevil" -> "Use recommended insecticides."
    [] disease = "Die Back" -> "Prune diseased twigs; spray Copper Oxychloride."
    [] disease = "Gall Midge" -> "Remove and destroy infested fruits."
    [] disease = "Healthy" -> "No treatment needed."
    [] disease = "Powdery Mildew" -> "Alternate spraying of Wettable sulphur."
    [] disease = "Sooty Mold" -> "Prune affected branches; spray Wettasulf."
    [] disease = "Black Mold Rot" -> "Improve air circulation and apply fungicides."
    [] disease = "Stem End Rot" -> "Proper post-harvest handling and storage."
    [] OTHER -> NO_TREATMENT

CONFIDENCE_THRESHOLD == 20 * FixedPoint

\* ------------------------------------------------ utils.validate_image_file
\* A filename is a sequence of characters; Lower is str.lower on the alphabet used.
Chars == {".", "p", "n", "g", "P"}
Lower(c) == IF c = "P" THEN "p" ELSE c
lower(name) == [i \in 1..Len(name) |-> Lower(name[i])]

\* name.split('.')[-1] : the text after the last '.', the whole name when it has none
LastSegment(name) ==
  LET dots == {i \in 1..Len(name) : name[i] = "."}
  IN  IF dots = {} THEN name
      ELSE LET last == CHOOSE i \in dots : \A j \in dots : j <= i
           IN  SubSeq(name, last + 1, Len(name))

MAX_IMAGE_BYTES == 10 * 1024 * 1024
allowed_types == {"image/jpeg", "image/jpg", "image/png", "image/webp"}
allowed_extensions ==
  { <<".", "j", "p", "g">>, <<".", "j", "p", "e", "g">>,
    <<".", "p", "n", "g">>, <<".", "w", "e", "b", "p">> }

SIZE_ERROR == "Image size must be less than 10MB"
TYPE_ERROR == "Only JPEG, PNG, and WebP images are allowed"
EXTENSION_ERROR == "Invalid file extension"

SizeCheckFails(image_file) == image_file.size > MAX_IMAGE_BYTES
TypeCheckFails(image_file) == image_file.content_type \notin allowed_types
ExtensionCheckFails(image_file) ==
  LET file_extension == LastSegment(lower(image_file.name))
  IN  (<<".">> \o file_extension) \notin allowed_extensions

validate_image_file(image_file) ==
  LET e1 == IF SizeCheckFails(image_file) THEN <<SIZE_ERROR>> ELSE <<>>
      e2 == IF TypeCheckFails(image_file) THEN e1 \o <<TYPE_ERROR>> ELSE e1
      e3 == IF ExtensionCheckFails(image_file) THEN e2 \o <<EXTENSION_ERROR>> ELSE e2
  IN  e3

\* ------------------------------------------- utils.calculate_confidence_level
\* confidence_score is a probability (in 1/FixedPoint)
calculate_confidence_level(confidence_score) ==
  IF confidence_score * 10 >= 8 * FixedPoint THEN "High"
  ELSE IF confidence_score * 10 >= 6 * FixedPoint THEN "Medium"
  ELSE IF confidence_score * 10 >= 4 * FixedPoint THEN "Low"
  ELSE "Very Low"

\* ------------------------------------------- utils.get_prediction_summary
\* np.argsort(predictions): the indices in ascending order of value.  The default
\* kind ('quicksort') is not stable, so the order of equal values is the sorting
\* routine's choice: tie is that choice, a ranking of the indices used among equals.
\* The order is built by insertion, index by index.
RECURSIVE ArgsortPrefix(_, _, _)
ArgsortPrefix(predictions, tie, k) ==
  IF k = 0 THEN <<>>
  ELSE LET prev == ArgsortPrefix(predictions, tie, k - 1)
           Before(i, j) == \/ predictions[i] < predictions[j]
                           \/ predictions[i] = predictions[j] /\ tie[i] < tie[j]
           pos == Cardinality({m \in 1..Len(prev) : Before(prev[m], k)})
       IN  SubSeq(prev, 1, pos) \o <<k>> \o SubSeq(prev, pos + 1, Len(prev))

argsort(predictions, tie) == ArgsortPrefix(predictions, tie, Len(predictions))

\* top_3_indices without the final reversal: np.argsort(predictions)[-3:]
top_3_indices_unreversed(predictions, tie) == LastN(argsort(predictions, tie), 3)

\* np.argsort(predictions)[-3:][::-1]
top_3_indices(predictions, tie) == Reverse(LastN(argsort(predictions, tie), 3))

\* class_names[idx] raises IndexError when idx is past the end of class_names,
\* and top_3_indices[0] when the vector is empty
SummaryRaises(predictions, class_names, tie) ==
  \/ Len(predictions) = 0
  \/ \E k \in 1..Len(top_3_indices(predictions, tie)) :
        top_3_indices(predictions, tie)[k] > Len(class_names)

Top3Entry(predictions, class_names, idx, i) ==
  [rank |-> i,
   disease |-> class_names[idx],
   confidence |-> predictions[idx] * 100]

get_prediction_summary(predictions, class_names, tie) ==
  LET top == top_3_indices(predictions, tie)
  IN  [primary_prediction |->
         [disease |-> class_names[top[1]],
          confidence |-> predictions[top[1]] * 100],
       top_3 |-> [i \in 1..Len(top) |-> Top3Entry(predictions, class_names, top[i], i)],
       confidence_level |-> calculate_confidence_level(predictions[top[1]])]

\* ------------------------------------------------ utils.create_api_response
\* data or {} : the empty dict when no data is given; 'errors' only when non-empty
EmptyDict == [k \in {} |-> k]

\* create_api_response that sets the errors key whatever errors holds
create_api_response_always_errors(success, message, data, errors, now) ==
  [success |-> success, message |-> message, data |-> data, timestamp |-> now,
   errors |-> errors]

create_api_response(success, message, data, errors, now) ==
  LET response_data == [success |-> success, message |-> message,
                        data |-> data, timestamp |-> now]
  IN  IF Len(errors) > 0 THEN response_data @@ [errors |-> errors] ELSE response_data

\* JsonResponse(body, status=...); status defaults to 200
JsonResponse(body, status) == [status |-> status, body |-> body]

\* ------------------------------------------------------------ models.py
\* The fields a PredictionLog accepts; Model.__init__ raises TypeError on any
\* other keyword, and image is a non-null foreign key.
PredictionLogFields == {"id", "image", "timestamp", "client_ip", "user_agent", "response_time"}

PredictionLogCreateRaises(kwargs) ==
  \/ ~(DOMAIN kwargs \subseteq PredictionLogFields)
  \/ kwargs.image = None

\* MangoImage.client_ip (null=True) holding NULL, written as an address that
\* no request has
NoAddress == "NULL"

\* MangoImage.save: disease_classification defaults to predicted_class
MangoImageSave(img) ==
  IF img.predicted_class # "" /\ img.disease_classification = ""
  THEN [img EXCEPT !.disease_classification = img.predicted_class]
  ELSE img

\* --------------------------------------------------------------- state
VARIABLES
  mango_images,     \* the MangoImage table: a set of records
  prediction_logs,  \* the PredictionLog table: a set of records
  sequences,        \* the next auto-increment id of each table
  pc,               \* where the predict_image handler is
  request,          \* the request being handled: FILES, data, META
  frame,            \* predict_image's local variables, bound as the handler runs
  response,         \* the JsonResponse returned for the request
  served,           \* requests received so far (also the clock of timestamps)
  trail,            \* the pipeline stages the current request has run, in order
  store_before,     \* the two tables as they were when the request arrived
  probe,            \* input of a function applied on its own
  result,           \* its result
  applied,          \* whether it has been applied
  user_confirmations, \* the UserConfirmation table: a set of records
  notifications,    \* the Notification table: a set of records
  workers,          \* the confirmation / notification requests in flight, one per worker
  last_answer       \* the last request answered outside predict_image, and its answer

vars == <<mango_images, prediction_logs, sequences, pc, request, frame, response, served,
          trail, store_before, probe, result, applied,
          user_confirmations, notifications, workers, last_answer>>

store_vars == <<mango_images, prediction_logs, sequences>>
probe_vars == <<probe, result, applied>>
handler_vars == <<pc, request, frame, response, served, trail, store_before>>
admin_vars == <<user_confirmations, notifications, workers, last_answer>>

NoRequest == [FILES |-> EmptyDict, data |-> EmptyDict, META |-> [REMOTE_ADDR |-> "127.0.0.1"]]
NoResponse == [status |-> None]
Idle == [handler |-> "none"]
NoAnswer == [handler |-> "none"]

InitStore ==
  /\ mango_images = {}
  /\ prediction_logs = {}
  /\ sequences = [mango_image |-> 1, prediction_log |-> 1,
                  user_confirmation |-> 1, notification |-> 1]
InitHandler ==
  /\ pc = "idle"
  /\ request = NoRequest
  /\ frame = EmptyDict
  /\ response = NoResponse
  /\ served = 0
  /\ trail = <<>>
  /\ store_before = [mango_images |-> {}, prediction_logs |-> {}]
InitProbe == probe = EmptyDict /\ result = EmptyDict /\ applied = FALSE
InitAdmin ==
  /\ user_confirmations = {}
  /\ notifications = {}
  /\ workers = [w \in 1..MaxWorkers |-> Idle]
  /\ last_answer = NoAnswer

Init == InitStore /\ InitHandler /\ InitProbe /\ InitAdmin

\* ------------------------------------------------ the requests considered
\* Uploaded files: at the size limit and over it, an allowed and a refused
\* content type, an allowed and a refused extension.
UploadedFiles ==
  [size : {MAX_IMAGE_BYTES, 15 * 1024 * 1024},
   content_type : {"image/png", "text/plain"},
   name : {<<"P", ".", "p", "n", "g">>, <<"P", ".", "p", "n">>}]

RequestFiles == {EmptyDict} \cup {[image |-> f] : f \in UploadedFiles}
RequestData == {EmptyDict} \cup {[detection_type |-> t] : t \in {"fruit", "leaf"}}

\* request.data.get(key, default)
Get(dict, key, default) == IF key \in DOMAIN dict THEN dict[key] ELSE default

\* utils.get_client_ip: the first address of X-Forwarded-For (a list of
\* addresses here), else REMOTE_ADDR
get_client_ip(req) ==
  IF "HTTP_X_FORWARDED_FOR" \in DOMAIN req.META /\ Len(req.META.HTTP_X_FORWARDED_FOR) > 0
  THEN req.META.HTTP_X_FORWARDED_FOR[1]
  ELSE req.META.REMOTE_ADDR

\* What model.predict may return for a model with n labels: a flat vector of n
\* values (of n + 1 for a model file that does not match the label list), here
\* one peak, or two equal peaks, over a zero background.
ProbLevels == {19, 20, 40, 60, 80}
OutputLengths(n) == {n, n + 1}
OnePeak(len, i, v) == [k \in 1..len |-> IF k = i THEN v ELSE 0]
TwoPeaks(len, i, v) == [k \in 1..len |-> IF k = i \/ k = (i % len) + 1 THEN v ELSE 0]
ModelOutputs(n) ==
  UNION {{OnePeak(len, i, v) : i \in 1..len, v \in ProbLevels}
           \cup {TwoPeaks(len, i, v) : i \in 1..len, v \in ProbLevels}
         : len \in OutputLengths(n)}

\* The tie orders of the sorting routine considered for a vector of length n:
\* equal values kept in index order, or in reverse index order.
TieChoices(n) == {[i \in 1..n |-> i], [i \in 1..n |-> n + 1 - i]}

\* ------------------------------------------------ ml_views.predict_image
\* return JsonResponse(...): the handler ends; frame keeps the locals it had bound
Respond(resp) ==
  /\ response' = resp
  /\ pc' = "done"

ErrorResponse(message, errors, status) ==
  JsonResponse(create_api_response(FALSE, message, EmptyDict, errors, served), status)

\* lines 75-93: the request arrives; 'image' must be among the uploaded files
predict_image_receive ==
  /\ pc \in {"idle", "done"}
  /\ served < MaxRequests
  /\ \E files \in RequestFiles, data \in RequestData :
       /\ request' = [FILES |-> files, data |-> data,
                     META |-> [REMOTE_ADDR |-> "127.0.0.1"]]
       /\ served' = served + 1
       /\ store_before' = [mango_images |-> mango_images, prediction_logs |-> prediction_logs]
       /\ trail' = <<>>
       /\ frame' = EmptyDict
       /\ IF "image" \notin DOMAIN files
          THEN /\ response' = JsonResponse(
                     create_api_response(FALSE, "No image uploaded", EmptyDict,
                                         <<"Image file is required">>, served + 1), 400)
               /\ pc' = "done"
          ELSE /\ response' = NoResponse
               /\ pc' = "validate"
  /\ UNCHANGED <<store_vars, probe_vars, admin_vars>>

\* predict_image_validate that reports the errors but does not return
predict_image_validate_no_return ==
  /\ pc = "validate"
  /\ trail' = Append(trail, "validate")
  /\ pc' = "preprocess"
  /\ frame' = [image_file |-> request.FILES.image, client_ip |-> get_client_ip(request)]
  /\ UNCHANGED <<store_vars, probe_vars, admin_vars, request, response, served, store_before>>

\* lines 96-112
predict_image_validate ==
  /\ pc = "validate"
  /\ trail' = Append(trail, "validate")
  /\ LET image_file == request.FILES.image
         validation_errors == validate_image_file(image_file)
     IN  IF Len(validation_errors) > 0
         THEN Respond(ErrorResponse("Invalid image file", validation_errors, 400))
         ELSE /\ pc' = "preprocess"
              /\ UNCHANGED response
  /\ frame' = [image_file |-> request.FILES.image, client_ip |-> get_client_ip(request)]
  /\ UNCHANGED <<store_vars, probe_vars, admin_vars, request, served, store_before>>

\* predict_image_preprocess answering a decode failure as a bad request (400)
predict_image_preprocess_as_bad_request ==
  /\ pc = "preprocess"
  /\ trail' = Append(trail, "preprocess")
  /\ \E decoded \in BOOLEAN :
       IF ~decoded
       THEN /\ Respond(ErrorResponse("Image preprocessing failed",
                                      <<"cannot identify image file">>, 400))
            /\ UNCHANGED frame
       ELSE /\ frame' = frame @@ [img_array |-> "tensor(1,224,224,3)", original_size |-> <<640, 480>>]
            /\ pc' = "select_model"
            /\ UNCHANGED response
  /\ UNCHANGED <<store_vars, probe_vars, admin_vars, request, served, store_before>>

\* lines 114-127; preprocess_image (lines 55-70) raises when the image cannot be decoded
predict_image_preprocess ==
  /\ pc = "preprocess"
  /\ trail' = Append(trail, "preprocess")
  /\ \E decoded \in BOOLEAN :
       IF ~decoded
       THEN /\ Respond(ErrorResponse("Image preprocessing failed",
                                      <<"cannot identify image file">>, 500))
            /\ UNCHANGED frame
       ELSE /\ frame' = frame @@ [img_array |-> "tensor(1,224,224,3)", original_size |-> <<640, 480>>]
            /\ pc' = "select_model"
            /\ UNCHANGED response
  /\ UNCHANGED <<store_vars, probe_vars, admin_vars, request, served, store_before>>

\* ChooseModel reading the labels of both models from the legacy class_names
\* list (line 34)
ChooseModel_legacy_class_names(detection_type) ==
  LET class_names == LEAF_CLASS_NAMES \o <<"Black Mold Rot", "Stem End Rot">>
  IN  IF detection_type = "fruit"
      THEN [model_path |-> "models/fruit-efficientnetb0-model.keras",
            model_used |-> "fruit",
            model_class_names |-> class_names]
      ELSE [model_path |-> "models/leaf-efficientnetb0-model.keras",
            model_used |-> "leaf",
            model_class_names |-> class_names]

\* lines 133-141: model path, model name and label list by detection type
ChooseModel(detection_type) ==
  IF detection_type = "fruit"
  THEN [model_path |-> "models/fruit-efficientnetb0-model.keras",
        model_used |-> "fruit",
        model_class_names |-> FRUIT_CLASS_NAMES]
  ELSE [model_path |-> "models/leaf-efficientnetb0-model.keras",
        model_used |-> "leaf",
        model_class_names |-> LEAF_CLASS_NAMES]

\* lines 129-155
predict_image_select_model ==
  /\ pc = "select_model"
  /\ trail' = Append(trail, "select_model")
  /\ \E model_file_exists \in BOOLEAN :
       IF ~model_file_exists
       THEN Respond(ErrorResponse("Model file not found",
                                  <<"Model file does not exist">>, 500))
       ELSE /\ pc' = "load_model"
            /\ UNCHANGED response
  /\ frame' = frame @@ ChooseModel(Get(request.data, "detection_type", "leaf"))
  /\ UNCHANGED <<store_vars, probe_vars, admin_vars, request, served, store_before>>

\* lines 157-170
predict_image_load_model ==
  /\ pc = "load_model"
  /\ trail' = Append(trail, "load_model")
  /\ \E loaded \in BOOLEAN :
       IF ~loaded
       THEN Respond(ErrorResponse("Failed to load ML model", <<"load_model error">>, 500))
       ELSE /\ pc' = "predict"
            /\ UNCHANGED response
  /\ UNCHANGED frame
  /\ UNCHANGED <<store_vars, probe_vars, admin_vars, request, served, store_before>>

\* lines 172-186
predict_image_predict ==
  /\ pc = "predict"
  /\ trail' = Append(trail, "predict")
  /\ \/ /\ Respond(ErrorResponse("ML prediction failed", <<"predict error">>, 500))
        /\ UNCHANGED frame
     \/ \E prediction \in ModelOutputs(Len(frame.model_class_names)) :
          /\ frame' = frame @@ [prediction |-> prediction]
          /\ pc' = "summarize"
          /\ UNCHANGED response
  /\ UNCHANGED <<store_vars, probe_vars, admin_vars, request, served, store_before>>

\* f"{x:.2f}" of a fixed-point number: its integer part and its two decimals
Format2f(x) == <<x \div FixedPoint, x % FixedPoint>>

\* line 195: the threshold gate
\* BelowThreshold with the threshold read as a fraction (0.20) of a percentage
BelowThreshold_as_fraction(prediction_summary) ==
  prediction_summary.primary_prediction.confidence < CONFIDENCE_THRESHOLD \div 100

BelowThreshold(prediction_summary) ==
  prediction_summary.primary_prediction.confidence < CONFIDENCE_THRESHOLD

\* lines 196-220: the payload of the low-confidence outcome
unknown_response_data(locals, prediction_summary) ==
  [primary_prediction |->
     [disease |-> "Unknown",
      confidence |-> Format2f(prediction_summary.primary_prediction.confidence),
      confidence_score |-> prediction_summary.primary_prediction.confidence,
      confidence_level |-> "Low",
      treatment |-> UNKNOWN_TREATMENT,
      detection_type |-> locals.model_used],
   top_3_predictions |-> <<>>,
   prediction_summary |->
     [most_likely |-> "Unknown",
      confidence_level |-> "Low",
      total_diseases_checked |-> Len(locals.model_class_names)],
   saved_image_id |-> None,
   model_used |-> locals.model_used,
   model_path |-> locals.model_path]

\* lines 230-232: treatment text and detection type on each top-3 entry
AddTreatments(prediction_summary, model_used) ==
  [prediction_summary EXCEPT !.top_3 =
     [i \in 1..Len(@) |-> @[i] @@ [treatment |-> treatment_suggestions(@[i].disease),
                                   detection_type |-> model_used]]]

\* lines 260-283: the payload of a confident outcome
success_response_data(locals, prediction_summary, saved_image_id) ==
  [primary_prediction |->
     [disease |-> prediction_summary.primary_prediction.disease,
      confidence |-> Format2f(prediction_summary.primary_prediction.confidence),
      confidence_score |-> prediction_summary.primary_prediction.confidence,
      confidence_level |-> prediction_summary.confidence_level,
      treatment |-> treatment_suggestions(prediction_summary.primary_prediction.disease),
      detection_type |-> locals.model_used],
   top_3_predictions |-> prediction_summary.top_3,
   prediction_summary |->
     [most_likely |-> prediction_summary.primary_prediction.disease,
      confidence_level |-> prediction_summary.confidence_level,
      total_diseases_checked |-> Len(locals.model_class_names)],
   saved_image_id |-> saved_image_id,
   model_used |-> locals.model_used,
   model_path |-> locals.model_path]

\* lines 188-232: summary, threshold gate, treatments.  An exception of
\* get_prediction_summary reaches the handler's outer except (lines 310-322).
predict_image_summarize ==
  /\ pc = "summarize"
  /\ trail' = Append(trail, "summarize")
  /\ \E tie \in TieChoices(Len(frame.prediction)) :
       IF SummaryRaises(frame.prediction, frame.model_class_names, tie)
       THEN /\ Respond(ErrorResponse("Prediction failed", <<"list index out of range">>, 500))
            /\ UNCHANGED frame
       ELSE LET prediction_summary ==
                  get_prediction_summary(frame.prediction, frame.model_class_names, tie)
            IN  IF BelowThreshold(prediction_summary)
                THEN /\ Respond(JsonResponse(
                          create_api_response(TRUE, "Could not confidently classify the image.",
                                              unknown_response_data(frame, prediction_summary),
                                              <<>>, served), 200))
                     /\ frame' = frame @@ [prediction_summary |-> prediction_summary]
                ELSE /\ frame' = frame @@ [prediction_summary |->
                                             AddTreatments(prediction_summary, frame.model_used)]
                     /\ pc' = "save_image"
                     /\ UNCHANGED response
  /\ UNCHANGED <<store_vars, probe_vars, admin_vars, request, served, store_before>>

\* lines 238-249: the record MangoImage.objects.create writes
NewMangoImage(locals, id, now) ==
  MangoImageSave(
    [id |-> id,
     image |-> locals.image_file.name,
     original_filename |-> locals.image_file.name,
     uploaded_at |-> now,
     predicted_class |-> locals.prediction_summary.primary_prediction.disease,
     disease_classification |-> locals.prediction_summary.primary_prediction.disease,
     disease_type |-> locals.model_used,
     confidence_score |-> locals.prediction_summary.primary_prediction.confidence \div 100,
     user |-> None,
     image_size |-> <<locals.original_size[1], "x", locals.original_size[2]>>,
     client_ip |-> locals.client_ip,
     notes |-> <<"Predicted via mobile app with confidence",
                 Format2f(locals.prediction_summary.primary_prediction.confidence)>>,
     processing_time |-> None,
     is_verified |-> FALSE,
     verified_by |-> None,
     verified_date |-> None])

\* predict_image_save_image without its try/except: a failed write reaches the
\* handler's outer except
predict_image_save_image_unguarded ==
  /\ pc = "save_image"
  /\ trail' = Append(trail, "save_image")
  /\ \E write_ok \in BOOLEAN :
       IF write_ok
       THEN LET id == sequences.mango_image
                written == frame @@ [mango_image |-> id, saved_image_id |-> id]
            IN  /\ mango_images' = mango_images \cup {NewMangoImage(frame, id, served)}
                /\ sequences' = [sequences EXCEPT !.mango_image = id + 1]
                /\ frame' = written @@ [response_data |->
                      success_response_data(frame, frame.prediction_summary, id)]
                /\ pc' = "save_log"
                /\ UNCHANGED response
       ELSE /\ Respond(ErrorResponse("Prediction failed", <<"storage write failed">>, 500))
            /\ UNCHANGED <<mango_images, sequences, frame>>
  /\ UNCHANGED <<prediction_logs, probe_vars, admin_vars, request, served, store_before>>

\* predict_image_save_image where an exception after MangoImage.objects.create
\* (in log_prediction_activity) reaches the except: the row stays, saved_image_id is None
predict_image_save_image_raises_after_create ==
  /\ pc = "save_image"
  /\ trail' = Append(trail, "save_image")
  /\ \E write_ok \in BOOLEAN :
       IF write_ok
       THEN LET id == sequences.mango_image
                written == frame @@ [mango_image |-> id, saved_image_id |-> None]
            IN  /\ mango_images' = mango_images \cup {NewMangoImage(frame, id, served)}
                /\ sequences' = [sequences EXCEPT !.mango_image = id + 1]
                /\ frame' = written @@ [response_data |->
                      success_response_data(frame, frame.prediction_summary, None)]
       ELSE /\ frame' = frame @@ [saved_image_id |-> None,
                                  response_data |->
                      success_response_data(frame, frame.prediction_summary, None)]
            /\ UNCHANGED <<mango_images, sequences>>
  /\ pc' = "save_log"
  /\ UNCHANGED <<prediction_logs, probe_vars, admin_vars, request, response, served, store_before>>

\* lines 234-283: the MangoImage write, whose failure is swallowed, then the payload
predict_image_save_image ==
  /\ pc = "save_image"
  /\ trail' = Append(trail, "save_image")
  /\ \E write_ok \in BOOLEAN :
       IF write_ok
       THEN LET id == sequences.mango_image
                written == frame @@ [mango_image |-> id, saved_image_id |-> id]
            IN  /\ mango_images' = mango_images \cup {NewMangoImage(frame, id, served)}
                /\ sequences' = [sequences EXCEPT !.mango_image = id + 1]
                /\ frame' = written @@ [response_data |->
                      success_response_data(frame, frame.prediction_summary, id)]
       ELSE /\ frame' = frame @@ [saved_image_id |-> None,
                                  response_data |->
                      success_response_data(frame, frame.prediction_summary, None)]
            /\ UNCHANGED <<mango_images, sequences>>
  /\ pc' = "save_log"
  /\ UNCHANGED <<prediction_logs, probe_vars, admin_vars, request, response, served, store_before>>

\* lines 288-297: the keyword arguments of PredictionLog.objects.create
PredictionLogKwargs(locals, req) ==
  [image |-> IF "mango_image" \in DOMAIN locals THEN locals.mango_image ELSE None,
   client_ip |-> get_client_ip(req),
   user_agent |-> "",
   response_time |-> 1,
   probabilities |-> locals.prediction,
   labels |-> locals.model_class_names,
   prediction_summary |-> locals.prediction_summary,
   raw_response |-> locals.response_data]

\* predict_image_save_log without its try/except: a failed write reaches the
\* handler's outer except
predict_image_save_log_unguarded ==
  /\ pc = "save_log"
  /\ trail' = Append(trail, "save_log")
  /\ LET kwargs == PredictionLogKwargs(frame, request)
     IN  IF PredictionLogCreateRaises(kwargs)
         THEN /\ Respond(ErrorResponse("Prediction failed", <<"unexpected keyword arguments">>, 500))
              /\ UNCHANGED <<prediction_logs, sequences>>
         ELSE /\ prediction_logs' = prediction_logs \cup
                   {kwargs @@ [id |-> sequences.prediction_log, timestamp |-> served]}
              /\ sequences' = [sequences EXCEPT !.prediction_log = @ + 1]
              /\ Respond(JsonResponse(
                   create_api_response(TRUE, "Image processed successfully",
                                       frame.response_data, <<>>, served), 200))
  /\ UNCHANGED <<mango_images, frame, probe_vars, admin_vars, request, served, store_before>>

\* lines 284-308: the PredictionLog write, whose failure is swallowed, then the response
predict_image_save_log ==
  /\ pc = "save_log"
  /\ trail' = Append(trail, "save_log")
  /\ LET kwargs == PredictionLogKwargs(frame, request)
     IN  IF PredictionLogCreateRaises(kwargs)
         THEN UNCHANGED <<prediction_logs, sequences>>
         ELSE /\ prediction_logs' = prediction_logs \cup
                   {kwargs @@ [id |-> sequences.prediction_log, timestamp |-> served]}
              /\ sequences' = [sequences EXCEPT !.prediction_log = @ + 1]
  /\ Respond(JsonResponse(
       create_api_response(TRUE, "Image processed successfully", frame.response_data,
                           <<>>, served), 200))
  /\ UNCHANGED <<mango_images, frame, probe_vars, admin_vars, request, served, store_before>>

Next ==
  \/ predict_image_receive
  \/ predict_image_validate
  \/ predict_image_preprocess
  \/ predict_image_select_model
  \/ predict_image_load_model
  \/ predict_image_predict
  \/ predict_image_summarize
  \/ predict_image_save_image
  \/ predict_image_save_log

Spec == Init /\ [][Next]_vars

\* ---------------------------------------- validate_image_file on its own
\* Every filename of 1..MaxNameLen characters, a size at the limit and one byte
\* over it, allowed and refused content types.
ProbeFiles ==
  [size : {MAX_IMAGE_BYTES, MAX_IMAGE_BYTES + 1},
   content_type : {"image/png", "image/jpeg", "text/plain"},
   name : SeqsUpTo(Chars, MaxNameLen) \ {<<>>}]

InitValidate ==
  /\ InitStore /\ InitHandler /\ InitAdmin
  /\ probe \in ProbeFiles
  /\ result = <<>>
  /\ applied = FALSE

validate_image_file_apply ==
  /\ ~applied
  /\ result' = validate_image_file(probe)
  /\ applied' = TRUE
  /\ UNCHANGED <<store_vars, handler_vars, admin_vars, probe>>

SpecValidate == InitValidate /\ [][validate_image_file_apply]_vars

\* ------------------------------------- get_prediction_summary on its own
\* Every vector of 3..MaxVecLen probabilities in 0..MaxProb, a label list of the
\* same length, and every tie order of the sorting routine.
LabelLists(n) ==
  {SubSeq(LEAF_CLASS_NAMES, 1, n)} \cup
  (IF n <= Len(FRUIT_CLASS_NAMES) THEN {SubSeq(FRUIT_CLASS_NAMES, 1, n)} ELSE {})

ProbeSummaries ==
  UNION {[predictions : [1..n -> 0..MaxProb],
          class_names : LabelLists(n),
          tie : Permutations1(n)] : n \in 3..MaxVecLen}

InitSummary ==
  /\ InitStore /\ InitHandler /\ InitAdmin
  /\ probe \in ProbeSummaries
  /\ result = EmptyDict
  /\ applied = FALSE

get_prediction_summary_apply ==
  /\ ~applied
  /\ result' = get_prediction_summary(probe.predictions, probe.class_names, probe.tie)
  /\ applied' = TRUE
  /\ UNCHANGED <<store_vars, handler_vars, admin_vars, probe>>

SpecSummary == InitSummary /\ [][get_prediction_summary_apply]_vars

\* =========================================== the other request handlers
\* The four tables as they stand
Tables ==
  [mango_images |-> mango_images, prediction_logs |-> prediction_logs,
   user_confirmations |-> user_confirmations, notifications |-> notifications]

\* The tables after the step being taken
TablesAfter ==
  [mango_images |-> mango_images', prediction_logs |-> prediction_logs',
   user_confirmations |-> user_confirmations', notifications |-> notifications']

\* A handler returns: the request, its response, the tables when the request
\* arrived and when it was answered
Answer(handler, req, resp, before) ==
  last_answer' = [handler |-> handler, request |-> req, response |-> resp,
                  before |-> before, after |-> TablesAfter]

\* request.user of an anonymous and of a logged-in caller
RequestUsers == {None, 1}

\* ------------------------------------ admin_dashboard_views.upload_image
MAX_UPLOAD_BYTES == 5 * 1024 * 1024

\* ImageUploadSerializer: 'image' is required; validate_image refuses a file
\* over 5 MB, then a format other than JPEG / JPG / PNG
ImageUploadSerializerErrors(files) ==
  IF "image" \notin DOMAIN files THEN <<"No file was submitted.">>
  ELSE IF files.image.size > MAX_UPLOAD_BYTES THEN <<"Image size cannot exceed 5MB">>
  ELSE IF files.image.format \notin {"JPEG", "JPG", "PNG"}
       THEN <<"Only JPEG and PNG images are allowed">>
  ELSE <<>>

UploadFiles ==
  {EmptyDict} \cup
  {[image |-> f] : f \in [size : {MAX_UPLOAD_BYTES, MAX_UPLOAD_BYTES + 1},
                          format : {"PNG", "WEBP"},
                          name : {<<"P", ".", "p", "n", "g">>}]}

\* lines 323-327: the record MangoImage.objects.create writes, the fields not
\* given taking the defaults of models.py (<<>> is the empty text of a field
\* whose texts are formatted from parts)
UploadedMangoImage(image_file, user, id, now) ==
  MangoImageSave(
    [id |-> id,
     image |-> image_file.name,
     original_filename |-> image_file.name,
     uploaded_at |-> now,
     predicted_class |-> "",
     disease_classification |-> "",
     disease_type |-> "",
     confidence_score |-> None,
     user |-> user,
     image_size |-> <<>>,
     client_ip |-> NoAddress,
     notes |-> <<>>,
     processing_time |-> None,
     is_verified |-> FALSE,
     verified_by |-> None,
     verified_date |-> None])

\* lines 314-344
upload_image ==
  /\ served < MaxAdminRequests
  /\ sequences.mango_image <= MaxImages
  /\ served' = served + 1
  /\ \E files \in UploadFiles, user \in RequestUsers :
       LET req == [FILES |-> files, user |-> user]
           errors == ImageUploadSerializerErrors(files)
           id == sequences.mango_image
       IN  IF errors = <<>>
           THEN /\ mango_images' = mango_images \cup
                     {UploadedMangoImage(files.image, user, id, served + 1)}
                /\ sequences' = [sequences EXCEPT !.mango_image = id + 1]
                /\ UNCHANGED <<prediction_logs, user_confirmations, notifications>>
                /\ Answer("upload_image", req,
                          JsonResponse([success |-> TRUE,
                                        message |-> "Image uploaded successfully",
                                        data |-> [id |-> id]], 200), Tables)
           ELSE /\ UNCHANGED <<store_vars, user_confirmations, notifications>>
                /\ Answer("upload_image", req,
                          JsonResponse([success |-> FALSE, error |-> errors], 400), Tables)
  /\ UNCHANGED <<pc, request, frame, response, trail, store_before, probe_vars, workers>>

\* --------------------------------- serializers.MangoImageUpdateSerializer
\* Meta.fields: the fields a PUT may set; other keys of the body are ignored
MangoImageUpdateFields ==
  {"predicted_class", "confidence_score", "disease_type", "image_size",
   "processing_time", "client_ip", "is_verified"}

\* The client addresses considered: two well-formed ones, and one with a ':'
\* that is no IPv6 address
ValidAddresses == {"127.0.0.1", "10.0.0.1"}

\* is_valid(): of the bodies considered, only a malformed client_ip is refused
MangoImageUpdateSerializerErrors(data) ==
  IF "client_ip" \in DOMAIN data /\ data.client_ip \notin ValidAddresses
  THEN <<"Enter a valid IPv4 or IPv6 address.">>
  ELSE <<>>

\* The columns of a row set to the given values
SetFields(img, values) ==
  [f \in DOMAIN img |-> IF f \in DOMAIN values THEN values[f] ELSE img[f]]

\* serializer.save(): the validated fields set on the instance, then MangoImage.save
MangoImageUpdateSerializerSave(img, data) ==
  MangoImageSave(SetFields(img, [f \in DOMAIN data \cap MangoImageUpdateFields |-> data[f]]))

\* The bodies of the PUT requests considered
PutData ==
  {EmptyDict,
   [predicted_class |-> "Anthracnose"],
   [confidence_score |-> 50],
   [is_verified |-> TRUE],
   [notes |-> <<"reviewed">>],
   [client_ip |-> "not:an:address"]}

\* DeleteMangoImage with the foreign keys declared without on_delete=CASCADE
\* and unchecked: the image row goes, the rows that name it stay
DeleteMangoImage_without_cascade(id) ==
  /\ mango_images' = {img \in mango_images : img.id # id}
  /\ UNCHANGED <<prediction_logs, user_confirmations, notifications>>

\* on_delete=CASCADE of PredictionLog.image, UserConfirmation.image and
\* Notification.related_image: the rows that go with an image
DeleteMangoImage(id) ==
  /\ mango_images' = {img \in mango_images : img.id # id}
  /\ prediction_logs' = {log \in prediction_logs : log.image # id}
  /\ user_confirmations' = {c \in user_confirmations : c.image # id}
  /\ notifications' = {n \in notifications : n.related_image # id}

\* ------------------- admin_dashboard_views.classified_images_detail
\* lines 229-274: GET, PUT or DELETE of the image pk
classified_images_detail ==
  /\ served < MaxAdminRequests
  /\ served' = served + 1
  /\ UNCHANGED sequences
  /\ \E pk \in 1..(MaxImages + 1), method \in {"GET", "PUT", "DELETE"}, data \in PutData :
       LET req == [method |-> method, pk |-> pk,
                   body |-> IF method = "PUT" THEN data ELSE EmptyDict]
       IN  /\ method # "PUT" => data = EmptyDict
           /\ IF ~ \E img \in mango_images : img.id = pk
              THEN /\ UNCHANGED <<mango_images, prediction_logs, user_confirmations,
                                  notifications>>
                   /\ Answer("classified_images_detail", req,
                             JsonResponse([success |-> FALSE, error |-> "Image not found"], 404),
                             Tables)
              ELSE LET image == CHOOSE img \in mango_images : img.id = pk
                   IN  CASE method = "GET" ->
                              /\ UNCHANGED <<mango_images, prediction_logs,
                                             user_confirmations, notifications>>
                              /\ Answer("classified_images_detail", req,
                                        JsonResponse([success |-> TRUE, data |-> image], 200),
                                        Tables)
                         [] method = "PUT" ->
                              IF MangoImageUpdateSerializerErrors(data) = <<>>
                              THEN LET saved == MangoImageUpdateSerializerSave(image, data)
                                   IN  /\ mango_images' = (mango_images \ {image}) \cup {saved}
                                       /\ UNCHANGED <<prediction_logs, user_confirmations,
                                                      notifications>>
                                       /\ Answer("classified_images_detail", req,
                                                 JsonResponse(
                                                   [success |-> TRUE,
                                                    message |-> "Image updated successfully",
                                                    data |-> saved], 200),
                                                 Tables)
                              ELSE /\ UNCHANGED <<mango_images, prediction_logs,
                                                  user_confirmations, notifications>>
                                   /\ Answer("classified_images_detail", req,
                                             JsonResponse(
                                               [success |-> FALSE,
                                                error |-> MangoImageUpdateSerializerErrors(data)],
                                               400),
                                             Tables)
                         [] method = "DELETE" ->
                              /\ DeleteMangoImage(pk)
                              /\ Answer("classified_images_detail", req,
                                        JsonResponse(
                                          [success |-> TRUE,
                                           message |-> "Image deleted successfully"], 200),
                                        Tables)
  /\ UNCHANGED <<pc, request, frame, response, trail, store_before, probe_vars, workers>>

\* ------------------------------------ serializers.BulkUpdateSerializer
\* validate_updates: the keys an update may name
allowed_fields ==
  {"predicted_class", "confidence_score", "disease_type", "image_size",
   "processing_time", "client_ip", "is_verified"}

\* is_valid(): image_ids has at least one element and names existing images
\* only (validate_image_ids); updates names allowed fields only (validate_updates)
BulkUpdateSerializerErrors(data) ==
  LET existing_ids == {img.id : img \in mango_images}
      missing_ids == Range(data.image_ids) \ existing_ids
      invalid_fields == DOMAIN data.updates \ allowed_fields
  IN  (IF data.image_ids = <<>> THEN <<"Ensure this field has at least 1 elements.">>
       ELSE IF missing_ids # {} THEN <<<<"Images do not exist", missing_ids>>>>
       ELSE <<>>)
      \o (IF invalid_fields # {} THEN <<<<"Invalid fields", invalid_fields>>>> ELSE <<>>)

\* QuerySet.update(**updates) prepares each value for its column: of the values
\* considered, a client_ip with a ':' that is no IPv6 address raises
QuerySetUpdateRaises(updates) ==
  "client_ip" \in DOMAIN updates /\ updates.client_ip \notin ValidAddresses

\* The bodies of the bulk requests considered: up to two ids, existing or not,
\* repeated or not; no update, an allowed one, one of a field outside the
\* list, one with a malformed value
BulkData ==
  [image_ids : SeqsUpTo(1..(MaxImages + 1), 2),
   updates : {EmptyDict,
              [is_verified |-> TRUE],
              [predicted_class |-> "Anthracnose"],
              [notes |-> <<"reviewed">>],
              [client_ip |-> "not:an:address"]}]

\* ------------------------ admin_dashboard_views.bulk_update_images
\* lines 280-310: the rows with id in image_ids updated by one UPDATE, which
\* touches no row (and counts none) when updates is empty
bulk_update_images ==
  /\ served < MaxAdminRequests
  /\ served' = served + 1
  /\ UNCHANGED <<sequences, prediction_logs, user_confirmations, notifications>>
  /\ \E data \in BulkData :
       LET errors == BulkUpdateSerializerErrors(data)
           matched == {img \in mango_images : img.id \in Range(data.image_ids)}
           updated_count == IF data.updates = EmptyDict THEN 0 ELSE Cardinality(matched)
       IN  IF errors # <<>>
           THEN /\ UNCHANGED mango_images
                /\ Answer("bulk_update_images", data,
                          JsonResponse([success |-> FALSE, error |-> errors], 400), Tables)
           ELSE IF QuerySetUpdateRaises(data.updates)
           THEN /\ UNCHANGED mango_images
                /\ Answer("bulk_update_images", data,
                          JsonResponse([success |-> FALSE,
                                        error |-> "Internal server error"], 500), Tables)
           ELSE /\ mango_images' = (mango_images \ matched)
                                     \cup {SetFields(img, data.updates) : img \in matched}
                /\ Answer("bulk_update_images", data,
                          JsonResponse([success |-> TRUE,
                                        message |-> <<"Successfully updated", updated_count,
                                                      "images">>,
                                        updated_count |-> updated_count], 200), Tables)
  /\ UNCHANGED <<pc, request, frame, response, trail, store_before, probe_vars, workers>>

\* ------------------------------------------- the dashboard on its own
\* Rows the tables may hold when the dashboard is used: an image as a
\* prediction stores it, with a PredictionLog of the fields of models.py
StoredMangoImage ==
  MangoImageSave(
    [id |-> 1,
     image |-> <<"P", ".", "p", "n", "g">>,
     original_filename |-> <<"P", ".", "p", "n", "g">>,
     uploaded_at |-> 0,
     predicted_class |-> "Healthy",
     disease_classification |-> "",
     disease_type |-> "leaf",
     confidence_score |-> 80,
     user |-> None,
     image_size |-> <<640, "x", 480>>,
     client_ip |-> NoAddress,
     notes |-> <<>>,
     processing_time |-> None,
     is_verified |-> FALSE,
     verified_by |-> None,
     verified_date |-> None])

StoredPredictionLog ==
  [id |-> 1, image |-> 1, timestamp |-> 0, client_ip |-> "127.0.0.1",
   user_agent |-> "", response_time |-> 1]

InitDashboard ==
  /\ InitHandler /\ InitProbe /\ InitAdmin
  /\ \/ InitStore
     \/ /\ mango_images = {StoredMangoImage}
        /\ prediction_logs = {StoredPredictionLog}
        /\ sequences = [mango_image |-> 2, prediction_log |-> 2,
                        user_confirmation |-> 1, notification |-> 1]

NextDashboard ==
  \/ upload_image
  \/ classified_images_detail
  \/ bulk_update_images

SpecDashboard == InitDashboard /\ [][NextDashboard]_vars

\* ------------------ admin_dashboard_views.get_top_predictions_for_image
\* lines 34-49: the (probability, label) pairs of a log in descending order of
\* probability (list.sort is stable, also with reverse=True), the first three
StoredTop3(prediction_log) ==
  LET probabilities == prediction_log.probabilities
      labels == prediction_log.labels
      n == IF Len(probabilities) < Len(labels) THEN Len(probabilities) ELSE Len(labels)
      place(i) == Cardinality({j \in 1..n : \/ probabilities[j] > probabilities[i]
                                            \/ /\ probabilities[j] = probabilities[i]
                                               /\ j < i}) + 1
      at(k) == CHOOSE i \in 1..n : place(i) = k
  IN  [k \in 1..(IF n < 3 THEN n ELSE 3) |->
         [predicted_class |-> <<labels[at(k)]>>, confidence |-> probabilities[at(k)]]]

\* lines 55-77: the synthetic top 3 made from the image's own prediction
SyntheticTop3(image) ==
  LET predicted_class == IF image.predicted_class # "" THEN image.predicted_class
                         ELSE "Unknown"
      confidence == IF image.confidence_score # None THEN image.confidence_score ELSE 0
      base_confidence == IF confidence < 95 THEN confidence ELSE 95
      less30 == base_confidence - 30
      less50 == base_confidence - 50
  IN  <<[predicted_class |-> <<predicted_class>>, confidence |-> base_confidence],
        [predicted_class |-> <<"Alternative to ", predicted_class>>,
         confidence |-> IF less30 > 10 THEN less30 ELSE 10],
        [predicted_class |-> <<"Other possibility">>,
         confidence |-> IF less50 > 5 THEN less50 ELSE 5]>>

\* lines 22-77. The most recent log of the image is looked up; reading
\* probabilities or labels of a log that has no such field raises, the except
\* clause swallows it, and the synthetic list is returned, as it is when the
\* image has no log or the stored lists are empty.
get_top_predictions_for_image(image, logs) ==
  LET of_image == {l \in logs : l.image = image.id}
      prediction_log ==
        IF of_image = {} THEN None
        ELSE CHOOSE l \in of_image : \A m \in of_image : m.timestamp <= l.timestamp
      raises == /\ of_image # {}
                /\ \/ "probabilities" \notin DOMAIN prediction_log
                   \/ /\ prediction_log.probabilities # <<>>
                      /\ "labels" \notin DOMAIN prediction_log
      stored == /\ of_image # {}
                /\ ~raises
                /\ prediction_log.probabilities # <<>>
                /\ prediction_log.labels # <<>>
  IN  IF stored THEN StoredTop3(prediction_log) ELSE SyntheticTop3(image)

\* get_top_predictions_for_image on its own: a stored image with every
\* confidence of 0..1 in steps of 1/FixedPoint and with or without a class,
\* and the image's logs as the prediction handler writes them.
ProbeImages ==
  [image : {[StoredMangoImage EXCEPT !.confidence_score = c, !.predicted_class = p] :
              c \in 0..FixedPoint, p \in {"", "Healthy"}},
   logs : {{}, {StoredPredictionLog}}]

InitTop3 ==
  /\ InitStore /\ InitHandler /\ InitAdmin
  /\ probe \in ProbeImages
  /\ result = <<>>
  /\ applied = FALSE

get_top_predictions_for_image_apply ==
  /\ ~applied
  /\ result' = get_top_predictions_for_image(probe.image, probe.logs)
  /\ applied' = TRUE
  /\ UNCHANGED <<store_vars, handler_vars, admin_vars, probe>>

SpecTop3 == InitTop3 /\ [][get_top_predictions_for_image_apply]_vars

\* ------------------------- confirmation_views.save_user_confirmation
\* request.data of the confirmation requests considered: each required field
\* present or absent, an existing and a non-existent image id, an empty and a
\* non-empty predicted_disease, with and without location consent.
ConfirmationData ==
  {a @@ b @@ c @@ d :
     a \in {EmptyDict} \cup {[image_id |-> i] : i \in 1..(MaxImages + 1)},
     b \in {EmptyDict} \cup {[is_correct |-> v] : v \in BOOLEAN},
     c \in {EmptyDict} \cup {[predicted_disease |-> v] : v \in {"", "Healthy"}},
     d \in {EmptyDict, [location_consent_given |-> TRUE, latitude |-> 14, longitude |-> 121]}}

\* lines 28-35 with 'not is_correct' for 'is_correct is None'
MissingFields_falsy_is_correct(data) ==
  (IF "image_id" \notin DOMAIN data THEN <<"image_id">> ELSE <<>>)
  \o (IF "is_correct" \notin DOMAIN data \/ data.is_correct = FALSE
      THEN <<"is_correct">> ELSE <<>>)
  \o (IF "predicted_disease" \notin DOMAIN data \/ data.predicted_disease = ""
      THEN <<"predicted_disease">> ELSE <<>>)

\* lines 28-35: image_id is None, is_correct is None, not predicted_disease
MissingFields(data) ==
  (IF "image_id" \notin DOMAIN data THEN <<"image_id">> ELSE <<>>)
  \o (IF "is_correct" \notin DOMAIN data THEN <<"is_correct">> ELSE <<>>)
  \o (IF "predicted_disease" \notin DOMAIN data \/ data.predicted_disease = ""
      THEN <<"predicted_disease">> ELSE <<>>)

\* lines 76-104: the keyword arguments of UserConfirmation.objects.create
confirmation_data(req, image) ==
  LET data == req.data
      base == [image |-> image,
               user |-> req.user,
               is_correct |-> data.is_correct,
               predicted_disease |-> data.predicted_disease,
               user_feedback |-> Get(data, "user_feedback", ""),
               confidence_score |-> Get(data, "confidence_score", None),
               client_ip |-> get_client_ip(req)]
  IN  IF Get(data, "location_consent_given", FALSE)
      THEN [location_consent_given |-> TRUE,
            latitude |-> Get(data, "latitude", None),
            longitude |-> Get(data, "longitude", None),
            location_accuracy |-> Get(data, "location_accuracy", None),
            location_address |-> Get(data, "location_address", "")] @@ base
      ELSE base

\* The fields of models.UserConfirmation not given to create take their defaults
UserConfirmationDefaults ==
  [latitude |-> None, longitude |-> None, location_accuracy |-> None,
   location_consent_given |-> FALSE, location_address |-> ""]

\* UserConfirmation.image declared as a ForeignKey: no uniqueness
UserConfirmationCreateRaises_foreign_key(kwargs) ==
  ~ \E img \in mango_images : img.id = kwargs.image

\* UserConfirmation.image is a OneToOneField: the insert raises IntegrityError
\* when the image has a confirmation already, or no longer exists
UserConfirmationCreateRaises(kwargs) ==
  \/ \E c \in user_confirmations : c.image = kwargs.image
  \/ ~ \E img \in mango_images : img.id = kwargs.image

\* lines 17-60: the required fields, then the image looked up (the mobile
\* app's requests are anonymous)
save_user_confirmation_receive(w) ==
  /\ workers[w] = Idle
  /\ served < MaxAdminRequests
  /\ served' = served + 1
  /\ UNCHANGED <<store_vars, user_confirmations, notifications>>
  /\ \E data \in ConfirmationData :
       LET req == [data |-> data, user |-> None, META |-> [REMOTE_ADDR |-> "127.0.0.1"]]
           missing_fields == MissingFields(data)
       IN  IF missing_fields # <<>>
           THEN /\ Answer("save_user_confirmation", req,
                          ErrorResponse("Missing required fields",
                                        <<<<"Missing fields", missing_fields>>>>, 400), Tables)
                /\ UNCHANGED workers
           ELSE IF ~ \E img \in mango_images : img.id = data.image_id
           THEN /\ Answer("save_user_confirmation", req,
                          ErrorResponse("Image not found",
                                        <<<<"No image found with ID", data.image_id>>>>, 404),
                          Tables)
                /\ UNCHANGED workers
           ELSE /\ workers' = [workers EXCEPT ![w] =
                     [handler |-> "save_user_confirmation", pc |-> "check", request |-> req,
                      image |-> data.image_id, before |-> Tables]]
                /\ UNCHANGED last_answer
  /\ UNCHANGED <<pc, request, frame, response, trail, store_before, probe_vars>>

\* lines 62-73: an image that has a confirmation is refused
save_user_confirmation_check(w) ==
  /\ workers[w].handler = "save_user_confirmation"
  /\ workers[w].pc = "check"
  /\ UNCHANGED <<store_vars, user_confirmations, notifications>>
  /\ IF \E c \in user_confirmations : c.image = workers[w].image
     THEN /\ Answer("save_user_confirmation", workers[w].request,
                    ErrorResponse("Confirmation already exists for this image",
                                  <<"This image has already been confirmed by user">>, 400),
                    workers[w].before)
          /\ workers' = [workers EXCEPT ![w] = Idle]
     ELSE /\ workers' = [workers EXCEPT ![w].pc = "create"]
          /\ UNCHANGED last_answer
  /\ UNCHANGED <<handler_vars, probe_vars>>

\* lines 75-141: the confirmation written; an exception of the insert reaches
\* the handler's except
save_user_confirmation_create(w) ==
  /\ workers[w].handler = "save_user_confirmation"
  /\ workers[w].pc = "create"
  /\ LET kwargs == confirmation_data(workers[w].request, workers[w].image)
         id == sequences.user_confirmation
         confirmation == kwargs @@ UserConfirmationDefaults
                           @@ [id |-> id, confirmed_at |-> served]
     IN  IF UserConfirmationCreateRaises(kwargs)
         THEN /\ UNCHANGED <<user_confirmations, sequences>>
              /\ UNCHANGED <<mango_images, prediction_logs, notifications>>
              /\ Answer("save_user_confirmation", workers[w].request,
                        ErrorResponse("Failed to save confirmation",
                                      <<"UNIQUE constraint failed">>, 500),
                        workers[w].before)
         ELSE /\ user_confirmations' = user_confirmations \cup {confirmation}
              /\ sequences' = [sequences EXCEPT !.user_confirmation = id + 1]
              /\ UNCHANGED <<mango_images, prediction_logs, notifications>>
              /\ Answer("save_user_confirmation", workers[w].request,
                        JsonResponse(
                          create_api_response(TRUE, "User confirmation saved successfully",
                            [confirmation_id |-> id,
                             image_id |-> workers[w].image,
                             is_correct |-> confirmation.is_correct,
                             predicted_disease |-> confirmation.predicted_disease,
                             confirmed_at |-> confirmation.confirmed_at,
                             location_saved |-> confirmation.location_consent_given],
                            <<>>, served), 200),
                        workers[w].before)
  /\ workers' = [workers EXCEPT ![w] = Idle]
  /\ UNCHANGED <<handler_vars, probe_vars>>

NextConfirm ==
  \/ upload_image
  \/ \E w \in 1..MaxWorkers :
       \/ save_user_confirmation_receive(w)
       \/ save_user_confirmation_check(w)
       \/ save_user_confirmation_create(w)

SpecConfirm == Init /\ [][NextConfirm]_vars

\* ------------------ notification_views.create_notifications_from_images
\* lines 24-38: the staff user, else the first user; notifications_list
\* requires an authenticated caller, so a User exists
default_user == 1

\* lines 20-22, evaluated when the loop of line 41 starts: the images without
\* a notification, newest first
ImagesWithoutNotification ==
  LET images == {img \in mango_images :
                   ~ \E n \in notifications : n.related_image = img.id}
  IN  CHOOSE seq \in [1..Cardinality(images) -> images] :
        /\ \A i, j \in DOMAIN seq : i # j => seq[i] # seq[j]
        /\ \A i, j \in DOMAIN seq : i < j => seq[i].uploaded_at >= seq[j].uploaded_at

\* lines 43-52: the keyword arguments of Notification.objects.create
NotificationKwargs(image) ==
  LET notification_user == IF image.user # None THEN image.user ELSE default_user
  IN  [notification_type |-> "image_upload",
       title |-> <<"New", IF image.disease_type # "" THEN image.disease_type ELSE "Mango",
                   "Image Upload">>,
       message |-> IF image.user # None
                   THEN <<image.user, "uploaded a new image:", image.original_filename>>
                   ELSE <<"Anonymous user uploaded a new image:", image.original_filename>>,
       related_image |-> image.id,
       user |-> notification_user]

\* Notification.related_image is a foreign key: the insert raises when the
\* image no longer exists
NotificationCreateRaises(kwargs) ==
  ~ \E img \in mango_images : img.id = kwargs.related_image

\* ------------------------------- notification_views.notifications_list
\* lines 64-69 and 16-41: with create_new=true the images without a
\* notification are read
notifications_list_receive(w) ==
  /\ workers[w] = Idle
  /\ served < MaxAdminRequests
  /\ served' = served + 1
  /\ \E create_new \in BOOLEAN :
       LET images == IF create_new THEN ImagesWithoutNotification ELSE <<>>
       IN  workers' = [workers EXCEPT ![w] =
             [handler |-> "notifications_list",
              pc |-> IF images # <<>> THEN "create" ELSE "respond",
              request |-> [create_new |-> create_new],
              images |-> images, created_count |-> 0, before |-> Tables]]
  /\ UNCHANGED <<store_vars, user_confirmations, notifications, last_answer>>
  /\ UNCHANGED <<pc, request, frame, response, trail, store_before, probe_vars>>

\* lines 41-53: one turn of the loop, a notification for the next image read;
\* an exception of the insert reaches the except of notifications_list
notifications_list_create(w) ==
  /\ workers[w].handler = "notifications_list"
  /\ workers[w].pc = "create"
  /\ UNCHANGED <<mango_images, prediction_logs, user_confirmations>>
  /\ LET image == Head(workers[w].images)
         kwargs == NotificationKwargs(image)
         id == sequences.notification
     IN  IF NotificationCreateRaises(kwargs)
         THEN /\ UNCHANGED <<notifications, sequences>>
              /\ Answer("notifications_list", workers[w].request,
                        JsonResponse([error |-> "Failed to fetch notifications"], 500),
                        workers[w].before)
              /\ workers' = [workers EXCEPT ![w] = Idle]
         ELSE /\ notifications' = notifications \cup
                   {kwargs @@ [id |-> id, is_read |-> FALSE, created_at |-> served]}
              /\ sequences' = [sequences EXCEPT !.notification = id + 1]
              /\ workers' = [workers EXCEPT
                   ![w].images = Tail(@),
                   ![w].created_count = @ + 1,
                   ![w].pc = IF Tail(workers[w].images) = <<>> THEN "respond" ELSE "create"]
              /\ UNCHANGED last_answer
  /\ UNCHANGED <<handler_vars, probe_vars>>

\* lines 71-113: the notifications listed
notifications_list_respond(w) ==
  /\ workers[w].handler = "notifications_list"
  /\ workers[w].pc = "respond"
  /\ UNCHANGED <<store_vars, user_confirmations, notifications>>
  /\ Answer("notifications_list", workers[w].request,
            JsonResponse([notifications |-> {n.id : n \in notifications},
                          pagination |-> [total_count |-> Cardinality(notifications)]], 200),
            workers[w].before)
  /\ workers' = [workers EXCEPT ![w] = Idle]
  /\ UNCHANGED <<handler_vars, probe_vars>>

NextNotify ==
  \/ upload_image
  \/ \E w \in 1..MaxWorkers :
       \/ notifications_list_receive(w)
       \/ notifications_list_create(w)
       \/ notifications_list_respond(w)

SpecNotify == Init /\ [][NextNotify]_vars

\* ------------------------------ notification_views.notification_detail
\* lines 183-207: the notification and its image as the GET answer shows them
\* (the User table is not part of the state: the user's names and address are
\* left out)
notification_data(notification, related) ==
  LET found == related # {}
      image == CHOOSE img \in related : TRUE
  IN  [id |-> notification.id,
       user_id |-> notification.user,
       image_id |-> IF found THEN image.id ELSE None,
       image_name |-> IF found THEN image.original_filename ELSE <<"N/A">>,
       timestamp |-> notification.created_at,
       disease_classification |->
         IF ~found THEN "N/A"
         ELSE IF image.disease_classification # "" THEN image.disease_classification
         ELSE image.predicted_class,
       disease_type |-> IF found THEN image.disease_type ELSE "Unknown",
       confidence |-> IF found /\ image.confidence_score # None
                      THEN image.confidence_score ELSE 0,
       is_read |-> notification.is_read,
       is_verified |-> IF found THEN image.is_verified ELSE FALSE,
       image_size |-> IF found THEN image.image_size ELSE <<>>,
       title |-> notification.title,
       message |-> notification.message]

\* lines 175-230: GET shows a notification, DELETE removes it and nothing else
notification_detail ==
  /\ served < MaxAdminRequests
  /\ served' = served + 1
  /\ UNCHANGED <<mango_images, prediction_logs, user_confirmations, sequences>>
  /\ \E notification_id \in 1..sequences.notification, method \in {"GET", "DELETE"} :
       LET req == [method |-> method, notification_id |-> notification_id]
       IN  IF ~ \E n \in notifications : n.id = notification_id
           THEN /\ UNCHANGED notifications
                /\ Answer("notification_detail", req,
                          JsonResponse([error |-> "Notification not found"], 404), Tables)
           ELSE LET notification == CHOOSE n \in notifications : n.id = notification_id
                    related == {img \in mango_images : img.id = notification.related_image}
                IN  IF method = "GET"
                    THEN /\ UNCHANGED notifications
                         /\ Answer("notification_detail", req,
                                   JsonResponse(notification_data(notification, related), 200),
                                   Tables)
                    ELSE /\ notifications' = notifications \ {notification}
                         /\ Answer("notification_detail", req,
                                   JsonResponse(
                                     [status |-> "success",
                                      message |-> <<"Notification \"", notification.title,
                                                    "\" deleted successfully">>], 200),
                                   Tables)
  /\ UNCHANGED <<pc, request, frame, response, trail, store_before, probe_vars, workers>>

\* -------------------- notification_views.delete_selected_notifications
\* The bodies sent: none, one that is not JSON, JSON without ids, and every
\* list of ids (id__in takes the list as a set)
DeleteSelectedBodies ==
  {[valid_json |-> FALSE, data |-> EmptyDict], [valid_json |-> TRUE, data |-> EmptyDict]}
  \cup {[valid_json |-> TRUE, data |-> [ids |-> ids]] :
          ids \in SUBSET (1..sequences.notification)}

\* Meta.ordering of Notification (models.py:118-119): newest first
NewestFirst(rows) ==
  CHOOSE seq \in [1..Cardinality(rows) -> rows] :
    /\ \A i, j \in DOMAIN seq : i # j => seq[i] # seq[j]
    /\ \A i, j \in DOMAIN seq : i < j => seq[i].created_at >= seq[j].created_at

\* delete_selected_notifications deleting Notification.objects.all() once some
\* id of the list is found, instead of the filtered rows
delete_selected_notifications_deletes_all ==
  /\ served < MaxAdminRequests
  /\ served' = served + 1
  /\ UNCHANGED <<mango_images, prediction_logs, user_confirmations, sequences>>
  /\ \E req \in DeleteSelectedBodies :
       LET notification_ids == Get(req.data, "ids", {})
           selected == {n \in notifications : n.id \in notification_ids}
       IN  IF ~req.valid_json
           THEN /\ UNCHANGED notifications
                /\ Answer("delete_selected_notifications", req,
                          JsonResponse([error |-> "Invalid JSON in request body"], 400), Tables)
           ELSE IF notification_ids = {}
           THEN /\ UNCHANGED notifications
                /\ Answer("delete_selected_notifications", req,
                          JsonResponse([error |-> "No notification IDs provided"], 400), Tables)
           ELSE IF selected = {}
           THEN /\ UNCHANGED notifications
                /\ Answer("delete_selected_notifications", req,
                          JsonResponse([error |-> "No notifications found with provided IDs"],
                                       404), Tables)
           ELSE /\ notifications' = {}
                /\ Answer("delete_selected_notifications", req,
                          JsonResponse(
                            [status |-> "success",
                             deleted_count |-> Cardinality(selected),
                             deleted_notifications |->
                               [i \in 1..Cardinality(selected) |->
                                  NewestFirst(selected)[i].title]], 200),
                          Tables)
  /\ UNCHANGED <<pc, request, frame, response, trail, store_before, probe_vars, workers>>

\* lines 235-286: every notification whose id is in the list is deleted
delete_selected_notifications ==
  /\ served < MaxAdminRequests
  /\ served' = served + 1
  /\ UNCHANGED <<mango_images, prediction_logs, user_confirmations, sequences>>
  /\ \E req \in DeleteSelectedBodies :
       LET notification_ids == Get(req.data, "ids", {})
           selected == {n \in notifications : n.id \in notification_ids}
       IN  IF ~req.valid_json
           THEN /\ UNCHANGED notifications
                /\ Answer("delete_selected_notifications", req,
                          JsonResponse([error |-> "Invalid JSON in request body"], 400), Tables)
           ELSE IF notification_ids = {}
           THEN /\ UNCHANGED notifications
                /\ Answer("delete_selected_notifications", req,
                          JsonResponse([error |-> "No notification IDs provided"], 400), Tables)
           ELSE IF selected = {}
           THEN /\ UNCHANGED notifications
                /\ Answer("delete_selected_notifications", req,
                          JsonResponse([error |-> "No notifications found with provided IDs"],
                                       404), Tables)
           ELSE /\ notifications' = notifications \ selected
                /\ Answer("delete_selected_notifications", req,
                          JsonResponse(
                            [status |-> "success",
                             deleted_count |-> Cardinality(selected),
                             deleted_notifications |->
                               [i \in 1..Cardinality(selected) |->
                                  NewestFirst(selected)[i].title]], 200),
                          Tables)
  /\ UNCHANGED <<pc, request, frame, response, trail, store_before, probe_vars, workers>>

\* ------------------------------------------- all the handlers together
\* Predictions, uploads, updates and deletions of images, confirmations, and
\* creations and deletions of notifications, interleaved, on an empty store
\* or on one holding an image and its log. The prediction request considered
\* here is one accepted leaf image that the model recognises or fails on.
PredictedFile ==
  [size |-> MAX_IMAGE_BYTES, content_type |-> "image/png",
   name |-> <<"P", ".", "p", "n", "g">>]

NextAdmin ==
  \/ /\ predict_image_receive
     /\ request'.FILES = [image |-> PredictedFile]
     /\ request'.data = [detection_type |-> "leaf"]
  \/ predict_image_validate
  \/ predict_image_preprocess
  \/ predict_image_select_model
  \/ predict_image_load_model
  \/ /\ predict_image_predict
     /\ pc' = "summarize" => frame'.prediction = OnePeak(Len(LEAF_CLASS_NAMES), 1, 80)
  \/ predict_image_summarize
  \/ predict_image_save_image
  \/ predict_image_save_log
  \/ upload_image
  \/ classified_images_detail
  \/ bulk_update_images
  \/ notification_detail
  \/ delete_selected_notifications
  \/ \E w \in 1..MaxWorkers :
       \/ save_user_confirmation_receive(w)
       \/ save_user_confirmation_check(w)
       \/ save_user_confirmation_create(w)
       \/ notifications_list_receive(w)
       \/ notifications_list_create(w)
       \/ notifications_list_respond(w)

SpecAdmin == InitDashboard /\ [][NextAdmin]_vars

\* ===================================================== properties checked
\* The request has ended after get_prediction_summary returned, so the
\* threshold gate was evaluated on frame.prediction_summary.
ReachedGate == pc = "done" /\ "prediction_summary" \in DOMAIN frame

PrimaryConfidence == frame.prediction_summary.primary_prediction.confidence

StoreUnchanged ==
  /\ mango_images = store_before.mango_images
  /\ prediction_logs = store_before.prediction_logs

\* C1: a request that reaches the threshold gate with primary confidence strictly
\* below the threshold is answered with disease "Unknown" and an empty top-3
\* list, and leaves the MangoImage and PredictionLog tables exactly as they were.
C1_LowConfidenceUnknownAndNothingStored ==
  (ReachedGate /\ PrimaryConfidence < CONFIDENCE_THRESHOLD) =>
     /\ response.body.data.primary_prediction.disease = "Unknown"
     /\ response.body.data.top_3_predictions = <<>>
     /\ StoreUnchanged

C1_Witness ==
  /\ ReachedGate
  /\ PrimaryConfidence < CONFIDENCE_THRESHOLD
  /\ response.status = 200

\* C2: a confident request whose MangoImage write did not fail creates exactly
\* one MangoImage and exactly one PredictionLog, the log refers to that image
\* and carries the label list of the detection type used.
C2_ConfidentCreatesOneImageAndOneLog ==
  (ReachedGate /\ PrimaryConfidence >= CONFIDENCE_THRESHOLD /\ "mango_image" \in DOMAIN frame) =>
     LET new_images == mango_images \ store_before.mango_images
         new_logs == prediction_logs \ store_before.prediction_logs
     IN  /\ Cardinality(new_images) = 1
         /\ Cardinality(new_logs) = 1
         /\ \A img \in new_images, log \in new_logs :
              /\ log.image = img.id
              /\ log.labels = (IF frame.model_used = "fruit"
                               THEN FRUIT_CLASS_NAMES ELSE LEAF_CLASS_NAMES)

\* C3: when the MangoImage write raises in a confident request, the response is
\* still 200 with success = true, the computed primary prediction and top-3
\* list, and saved_image_id = null.
ImageWriteFailed ==
  pc = "done" /\ "save_image" \in Range(trail) /\ "mango_image" \notin DOMAIN frame

C3_ImageWriteFailureStillAnswers ==
  ImageWriteFailed =>
     /\ response.status = 200
     /\ response.body.success = TRUE
     /\ response.body.data.primary_prediction.disease =
          frame.prediction_summary.primary_prediction.disease
     /\ response.body.data.primary_prediction.confidence_score = PrimaryConfidence
     /\ response.body.data.top_3_predictions = frame.prediction_summary.top_3
     /\ Len(response.body.data.top_3_predictions) = 3
     /\ response.body.data.saved_image_id = None

C3_Witness == ImageWriteFailed /\ response.status = 200

\* The extension of a filename: its last '.' and what follows it, in lower case;
\* empty when the name has no '.'.
FilenameExtension(name) ==
  LET dots == {i \in 1..Len(name) : name[i] = "."}
  IN  IF dots = {} THEN <<>>
      ELSE LET last == CHOOSE i \in dots : \A j \in dots : j <= i
           IN  lower(SubSeq(name, last, Len(name)))

\* C4: validate_image_file returns one message per violated constraint and no
\* others: the size message iff size > 10 MB, the type message iff the content
\* type is not an allowed JPEG/PNG/WebP type, the extension message iff the
\* filename extension is not .jpg, .jpeg, .png or .webp; the list is empty iff
\* all three checks pass.
C4_OneMessagePerViolatedConstraint ==
  applied =>
    LET messages == Range(result)
        too_big == probe.size > 10 * 1024 * 1024
        bad_type == probe.content_type \notin
                      {"image/jpeg", "image/jpg", "image/png", "image/webp"}
        bad_extension == FilenameExtension(probe.name) \notin allowed_extensions
    IN  /\ (SIZE_ERROR \in messages) <=> too_big
        /\ (TYPE_ERROR \in messages) <=> bad_type
        /\ (EXTENSION_ERROR \in messages) <=> bad_extension
        /\ messages \subseteq {SIZE_ERROR, TYPE_ERROR, EXTENSION_ERROR}
        /\ Len(result) = Cardinality(messages)
        /\ (result = <<>>) <=> (~too_big /\ ~bad_type /\ ~bad_extension)

\* The stage at which the handler returned ("receive" before any stage ran)
LastStage == IF trail = <<>> THEN "receive" ELSE trail[Len(trail)]

\* C5: every request ends with one status, fixed by its outcome: 400 when the
\* image is missing or validation fails; 500 when preprocessing, model lookup,
\* model loading or inference fails or an unexpected exception is raised; 200
\* whenever the summary was computed, the "Unknown" outcome and a failed
\* MangoImage write included.
C5_StatusByOutcome ==
  pc = "done" =>
    /\ response.status \in {200, 400, 500}
    /\ (response.status = 400) <=> LastStage \in {"receive", "validate"}
    /\ (response.status = 500) <=>
          \/ LastStage \in {"preprocess", "select_model", "load_model", "predict"}
          \/ LastStage = "summarize" /\ ~ReachedGate
    /\ (response.status = 200) <=> ReachedGate
    /\ (response.status = 200) <=> response.body.success
    /\ ImageWriteFailed => response.status = 200

C5_Witness ==
  /\ pc = "done"
  /\ LastStage = "summarize"
  /\ ~ReachedGate
  /\ response.status = 500

\* C6: validation runs before preprocessing, preprocessing before model loading
\* and inference; when validation or preprocessing fails the model is neither
\* loaded nor invoked and nothing is stored for the request.
PipelineOrder ==
  <<"validate", "preprocess", "select_model", "load_model", "predict",
    "summarize", "save_image", "save_log">>

ValidationFailed ==
  "validate" \in Range(trail) /\ validate_image_file(request.FILES.image) # <<>>

PreprocessingFailed ==
  "preprocess" \in Range(trail) /\ "img_array" \notin DOMAIN frame

ModelTouched == "load_model" \in Range(trail) \/ "predict" \in Range(trail)

C6_ValidateThenPreprocessThenModel ==
  /\ Len(trail) <= Len(PipelineOrder)
  /\ trail = SubSeq(PipelineOrder, 1, Len(trail))
  /\ (ValidationFailed \/ PreprocessingFailed) => (~ModelTouched /\ StoreUnchanged)

C6_Witness ==
  /\ pc = "done"
  /\ PreprocessingFailed
  /\ ~ValidationFailed
  /\ response.status = 500

MaxOf(s) == CHOOSE m \in Range(s) : \A x \in Range(s) : x <= m
IndexOfLabel(class_names, label) == CHOOSE i \in 1..Len(class_names) : class_names[i] = label

\* C7: for a probability vector and a label list of equal length (at least 3),
\* the primary prediction is the label at an index where the vector is maximal,
\* top_3 has exactly three entries ranked 1, 2, 3 with non-increasing
\* probabilities, and top_3[0] names the primary prediction's label.
C7_PrimaryIsArgmaxTop3Descending ==
  applied =>
    LET predictions == probe.predictions
        class_names == probe.class_names
    IN  /\ \E i \in 1..Len(predictions) :
              /\ predictions[i] = MaxOf(predictions)
              /\ result.primary_prediction.disease = class_names[i]
        /\ Len(result.top_3) = 3
        /\ \A k \in 1..3 : result.top_3[k].rank = k
        /\ \A k \in 1..2 : result.top_3[k].confidence >= result.top_3[k + 1].confidence
        /\ result.top_3[1].disease = result.primary_prediction.disease

C7_Witness ==
  /\ applied
  /\ Len(probe.predictions) = 4
  /\ probe.predictions[1] > probe.predictions[4]
  /\ result.top_3[1].confidence > result.top_3[3].confidence

\* C8: labels of exactly equal probability are ordered by ascending original
\* index: among equals the smaller index ranks first, and on a tie for the
\* maximum the smallest index is the primary prediction.
C8_TiesByAscendingIndex ==
  applied =>
    LET predictions == probe.predictions
        class_names == probe.class_names
        first_max == CHOOSE i \in 1..Len(predictions) :
                       /\ predictions[i] = MaxOf(predictions)
                       /\ \A j \in 1..(i - 1) : predictions[j] < predictions[i]
    IN  /\ result.primary_prediction.disease = class_names[first_max]
        /\ \A a, b \in 1..Len(result.top_3) :
              (a < b /\ result.top_3[a].confidence = result.top_3[b].confidence) =>
                 IndexOfLabel(class_names, result.top_3[a].disease)
                   < IndexOfLabel(class_names, result.top_3[b].disease)

\* The tier of a raw probability p (in 1/FixedPoint): High from 0.8, Medium from
\* 0.6, Low from 0.4, Very Low below
Tier(p) ==
  CASE p * 10 >= 8 * FixedPoint -> "High"
    [] p * 10 < 8 * FixedPoint /\ p * 10 >= 6 * FixedPoint -> "Medium"
    [] p * 10 < 6 * FixedPoint /\ p * 10 >= 4 * FixedPoint -> "Low"
    [] OTHER -> "Very Low"

\* C9: in every 200 response the confidence_level of primary_prediction and of
\* prediction_summary is the tier of the primary prediction's raw probability,
\* in the confident branch and in the "Unknown" branch alike.
C9_ConfidenceLevelIsTierOfProbability ==
  (pc = "done" /\ response.status = 200) =>
    LET p == PrimaryConfidence \div 100
    IN  /\ response.body.data.primary_prediction.confidence_level = Tier(p)
        /\ response.body.data.prediction_summary.confidence_level = Tier(p)

LabelsOf(model_used) ==
  IF model_used = "fruit" THEN FRUIT_CLASS_NAMES ELSE LEAF_CLASS_NAMES

AsksForFruit ==
  "detection_type" \in DOMAIN request.data /\ request.data.detection_type = "fruit"

\* C10: the fruit model and the 4 fruit labels are used iff detection_type is
\* "fruit", the leaf model and the 8 leaf labels otherwise (detection_type
\* absent included); the primary disease of every confident response and of
\* every MangoImage is a label of the model named in model_used / disease_type.
C10_LabelsMatchModelUsed ==
  /\ Len(FRUIT_CLASS_NAMES) = 4 /\ Len(LEAF_CLASS_NAMES) = 8
  /\ "model_used" \in DOMAIN frame =>
        /\ AsksForFruit <=> frame.model_used = "fruit"
        /\ ~AsksForFruit <=> frame.model_used = "leaf"
        /\ frame.model_class_names = LabelsOf(frame.model_used)
  /\ (ReachedGate /\ PrimaryConfidence >= CONFIDENCE_THRESHOLD) =>
        response.body.data.primary_prediction.disease
          \in Range(LabelsOf(response.body.data.model_used))
  /\ \A img \in mango_images :
        img.predicted_class \in Range(LabelsOf(img.disease_type))

C10_Witness ==
  /\ pc = "done"
  /\ AsksForFruit
  /\ \E img \in mango_images :
        /\ img.disease_type = "fruit"
        /\ img.predicted_class = "Stem End Rot"
        /\ response.body.data.saved_image_id = img.id

\* C12: every response of predict_image is an envelope with success, message,
\* data and timestamp; a response with success = false also has a non-empty
\* errors list, a response with success = true has no errors key.
C12_EveryResponseIsAnEnvelope ==
  pc = "done" =>
     /\ {"success", "message", "data", "timestamp"} \subseteq DOMAIN response.body
     /\ response.body.success = FALSE =>
          ("errors" \in DOMAIN response.body /\ Len(response.body.errors) > 0)
     /\ response.body.success = TRUE => "errors" \notin DOMAIN response.body

C12_Witness ==
  /\ pc = "done"
  /\ LastStage = "validate"
  /\ response.body.success = FALSE
  /\ Len(response.body.errors) = 2

C16_BothWritesAttempted ==
  (pc = "done" /\ "save_image" \in Range(trail)) =>
     /\ "save_log" \in Range(trail)
     /\ response.status = 200
     /\ response.body.success = TRUE

C16_Witness ==
  /\ ImageWriteFailed
  /\ LastStage = "save_log"
  /\ prediction_logs = store_before.prediction_logs
  /\ response.status = 200

\* C17: the "Unknown" outcome carries no treatment text on its primary
\* prediction and an empty top-3 list.
C17_UnknownHasNoTreatmentAndNoTop3 ==
  (pc = "done" /\ response.status = 200
     /\ response.body.data.primary_prediction.disease = "Unknown") =>
     /\ \/ "treatment" \notin DOMAIN response.body.data.primary_prediction
        \/ response.body.data.primary_prediction.treatment = ""
     /\ response.body.data.top_3_predictions = <<>>

\* The image a confirmation request names has a confirmation in these tables
Confirmed(tables, data) ==
  "image_id" \in DOMAIN data /\ \E c \in tables.user_confirmations : c.image = data.image_id

\* C11: whatever the order and interleaving of save_user_confirmation requests,
\* no MangoImage has more than one UserConfirmation, and a request for an image
\* that had a confirmation when it arrived is answered with success = false
\* and leaves that confirmation as it was.
C11_AtMostOneConfirmationPerImage ==
  /\ \A img \in mango_images :
       Cardinality({c \in user_confirmations : c.image = img.id}) <= 1
  /\ (last_answer.handler = "save_user_confirmation"
        /\ Confirmed(last_answer.before, last_answer.request.data)) =>
       /\ last_answer.response.body.success = FALSE
       /\ \A c \in last_answer.before.user_confirmations :
            c.image = last_answer.request.data.image_id =>
              (c \in last_answer.after.user_confirmations /\ c \in user_confirmations)

\* two requests for one image passed the existence check together, and one was refused
C11_Witness ==
  /\ last_answer.handler = "save_user_confirmation"
  /\ last_answer.response.status = 500
  /\ ~Confirmed(last_answer.before, last_answer.request.data)
  /\ Cardinality(user_confirmations) = 1

\* C18: a save_user_confirmation request without image_id, is_correct or
\* predicted_disease is answered 400, is_correct = false counting as given; a
\* complete request naming an image that does not exist is answered 404; a
\* request so refused creates no UserConfirmation and changes no table.
C18_RejectedConfirmationChangesNothing ==
  last_answer.handler = "save_user_confirmation" =>
    LET data == last_answer.request.data
        incomplete == \/ "image_id" \notin DOMAIN data
                      \/ "is_correct" \notin DOMAIN data
                      \/ "predicted_disease" \notin DOMAIN data
        complete == ~incomplete /\ data.predicted_disease # ""
        no_image == ~ \E img \in last_answer.before.mango_images : img.id = data.image_id
        resp == last_answer.response
    IN  /\ incomplete => (resp.status = 400 /\ resp.body.message = "Missing required fields")
        /\ (complete /\ no_image) => resp.status = 404
        /\ (complete /\ ~no_image /\ data.is_correct = FALSE) =>
              resp.body.message # "Missing required fields"
        /\ (resp.status = 404 \/ resp.body.message = "Missing required fields") =>
              /\ resp.body.success = FALSE
              /\ last_answer.after = last_answer.before

C18_Witness ==
  /\ last_answer.handler = "save_user_confirmation"
  /\ last_answer.response.status = 404
  /\ "is_correct" \in DOMAIN last_answer.request.data
  /\ last_answer.request.data.is_correct = FALSE
  /\ mango_images # {}

\* C13: an existing MangoImage keeps its predicted label, confidence score,
\* disease type, image size and client IP in every step of the dashboard (PUT
\* on classified_images_detail, bulk_update_images) for as long as it exists.
C13_CreationFieldsNeverChange ==
  [][\A img \in mango_images : \A after \in mango_images' :
       after.id = img.id =>
         /\ after.predicted_class = img.predicted_class
         /\ after.confidence_score = img.confidence_score
         /\ after.disease_type = img.disease_type
         /\ after.image_size = img.image_size
         /\ after.client_ip = img.client_ip]_vars

C19_BulkUpdateAllOrNothing ==
  (last_answer.handler = "bulk_update_images" /\ last_answer.request.image_ids # <<>>) =>
    LET data == last_answer.request
        before == last_answer.before.mango_images
        after == last_answer.after.mango_images
        ids == Range(data.image_ids)
        rejected == \/ \E id \in ids : ~ \E img \in before : img.id = id
                    \/ ~(DOMAIN data.updates \subseteq allowed_fields)
        resp == last_answer.response
    IN  IF rejected
        THEN resp.status = 400 /\ after = before
        ELSE /\ resp.status = 200
             /\ resp.body.updated_count = Cardinality(ids)
             /\ after = {IF img.id \in ids THEN SetFields(img, data.updates) ELSE img :
                           img \in before}

\* C20: without notification deletions, whatever the order and interleaving of
\* notifications_list requests, no MangoImage has more than one related
\* Notification, and no step of a request without create_new=true adds a
\* notification.
C20_AtMostOneNotificationPerImage ==
  /\ [](\A img \in mango_images :
          Cardinality({n \in notifications : n.related_image = img.id}) <= 1)
  /\ [][\A w \in 1..MaxWorkers :
          (workers[w].handler = "notifications_list" /\ workers'[w] # workers[w]
             /\ ~workers[w].request.create_new) => notifications' = notifications]_vars

\* The saved_image_id of the response (None when the payload has none)
SavedImageId ==
  IF "saved_image_id" \in DOMAIN response.body.data
  THEN response.body.data.saved_image_id ELSE None

\* C23: in every predict_image response saved_image_id is non-null iff the
\* request created a MangoImage, and is then the id of that record; a response
\* with saved_image_id null leaves no MangoImage of the request behind.
C23_SavedImageIdIffImageCreated ==
  pc = "done" =>
    LET created == mango_images \ store_before.mango_images
    IN  /\ (SavedImageId # None) <=> (created # {})
        /\ SavedImageId # None => {img.id : img \in created} = {SavedImageId}
        /\ SavedImageId = None => created = {}

C23_Witness ==
  /\ pc = "done"
  /\ SavedImageId # None
  /\ \E img \in mango_images \ store_before.mango_images : img.id = SavedImageId

\* C24: a save_user_confirmation request for an existing image that is refused
\* because another request confirmed the image first, also when both passed the
\* existence check before either wrote, is answered like a sequential
\* duplicate, 400 "Confirmation already exists for this image", and exactly one
\* of the requests has written its confirmation.
C24_RacingDuplicateRefusedLikeSequential ==
  (/\ last_answer.handler = "save_user_confirmation"
   /\ MissingFields(last_answer.request.data) = <<>>
   /\ \E img \in last_answer.before.mango_images :
        img.id = last_answer.request.data.image_id
   /\ last_answer.response.body.success = FALSE) =>
     /\ last_answer.response.status = 400
     /\ last_answer.response.body.message = "Confirmation already exists for this image"
     /\ Cardinality({c \in last_answer.after.user_confirmations :
                       c.image = last_answer.request.data.image_id}) = 1

\* C26: every MangoImage with is_verified = TRUE has a verifier and a
\* verification date, after any sequence of uploads, PUT updates and bulk
\* updates.
C26_VerifiedHasVerifierAndDate ==
  \A img \in mango_images :
    img.is_verified = TRUE =>
      /\ img.verified_by # None
      /\ img.verified_date # None

\* C22: the three confidences of the synthetic top 3 are in non-increasing
\* order for every stored confidence of 0..1, and the first is the stored
\* confidence capped at 0.95.
C22_SyntheticTop3NonIncreasing ==
  (applied /\ result = SyntheticTop3(probe.image)) =>
    /\ Len(result) = 3
    /\ result[1].confidence =
         (IF probe.image.confidence_score < 95 THEN probe.image.confidence_score ELSE 95)
    /\ result[1].confidence >= result[2].confidence
    /\ result[2].confidence >= result[3].confidence

\* C25: in every reachable state every PredictionLog, every UserConfirmation and
\* every Notification with a related image refers to an existing MangoImage.
C25_ReferentialIntegrity ==
  LET ids == {img.id : img \in mango_images}
  IN  /\ \A l \in prediction_logs : l.image \in ids
      /\ \A c \in user_confirmations : c.image \in ids
      /\ \A n \in notifications : n.related_image # None => n.related_image \in ids

\* C25 witness: an image that had a log, a confirmation and a notification has
\* been deleted, and none of the three tables names it any more
C25_Witness ==
  /\ last_answer.handler = "classified_images_detail"
  /\ last_answer.request.method = "DELETE"
  /\ LET pk == last_answer.request.pk
     IN  /\ \E img \in last_answer.before.mango_images : img.id = pk
         /\ \E l \in last_answer.before.prediction_logs : l.image = pk
         /\ \E c \in last_answer.before.user_confirmations : c.image = pk
         /\ \E n \in last_answer.before.notifications : n.related_image = pk
         /\ ~ \E img \in mango_images : img.id = pk
         /\ ~ \E l \in prediction_logs : l.image = pk
         /\ ~ \E c \in user_confirmations : c.image = pk
         /\ ~ \E n \in notifications : n.related_image = pk

\* The notifications a deleting request names: the one of notification_detail,
\* those of the ids list of delete_selected_notifications
Targeted ==
  IF last_answer.handler = "notification_detail"
  THEN {last_answer.request.notification_id}
  ELSE Get(last_answer.request.data, "ids", {})

DeletingRequest ==
  \/ /\ last_answer.handler = "notification_detail"
     /\ last_answer.request.method = "DELETE"
  \/ last_answer.handler = "delete_selected_notifications"

\* C21: a notification_detail DELETE or a delete_selected_notifications request
\* removes only Notification rows it names: the images are the same set with
\* the same fields, and every notification it does not name is still there.
C21_DeletingNotificationsTouchesNothingElse ==
  DeletingRequest =>
    /\ last_answer.after.mango_images = last_answer.before.mango_images
    /\ last_answer.after.notifications \subseteq last_answer.before.notifications
    /\ \A n \in last_answer.before.notifications :
         n.id \notin Targeted => n \in last_answer.after.notifications

\* C21 witness: a deleting request has removed a notification of an image and
\* left another notification and the image in place
C21_Witness ==
  /\ DeletingRequest
  /\ \E gone \in last_answer.before.notifications \ last_answer.after.notifications :
       /\ gone.id \in Targeted
       /\ \E img \in last_answer.after.mango_images : img.id = gone.related_image
  /\ \E kept \in last_answer.after.notifications : kept.id \notin Targeted

====
